---- MODULE Spec2Model ----
\* The size-class tables of tcmalloc/size_classes.cc: the eight literal
\* kSizeClassesList arrays, the preprocessor chain that selects one of them,
\* and the read-only span kSizeClasses that the rest of the allocator walks
\* and searches.
EXTENDS Integers, Sequences, FiniteSets

VARIABLES cpp_aligned_new, default_new_alignment, page_shift, max_size, pc, kSizeClasses, cls, req,
          cfgset

vars == <<cpp_aligned_new, default_new_alignment, page_shift, max_size, pc, kSizeClasses, cls, req,
          cfgset>>

\* Requests are drawn within ReqSlack bytes of every class size of the table.
ReqSlack == 1

\* Values of __STDCPP_DEFAULT_NEW_ALIGNMENT__ and of TCMALLOC_PAGE_SHIFT the
\* build is tried with; 14 and 16 are page shifts the file has no branch for.
NewAlignments == {8, 16}
PageShifts == {12, 13, 14, 15, 16, 18}
SupportedShifts == {12, 13, 15, 18}

\* Values of kMaxSize the included tcmalloc/common.h may define.
MaxSizes == {8192, 262144}

\* One row {bytes, pages, batch, cap} of a table.
SizeClassInfo(b, p, n, c) == [bytes |-> b, pages |-> p, batch |-> n, cap |-> c]

\* default new alignment <= 8, TCMALLOC_PAGE_SHIFT == 13: the initializer list of kSizeClassesList
\* (source lines 54-135), one SizeClassInfo per row, in source order.
kSizeClassesList_le8_13 ==
  << SizeClassInfo(0, 0, 0, 0),
     SizeClassInfo(8, 1, 32, 2024),
     SizeClassInfo(16, 1, 32, 2024),
     SizeClassInfo(32, 1, 32, 2027),
     SizeClassInfo(64, 1, 32, 2024),
     SizeClassInfo(72, 1, 32, 1275),
     SizeClassInfo(80, 1, 32, 2024),
     SizeClassInfo(88, 1, 32, 1031),
     SizeClassInfo(96, 1, 32, 1206),
     SizeClassInfo(104, 1, 32, 489),
     SizeClassInfo(112, 1, 32, 804),
     SizeClassInfo(120, 1, 32, 505),
     SizeClassInfo(128, 1, 32, 957),
     SizeClassInfo(136, 1, 32, 355),
     SizeClassInfo(144, 1, 32, 646),
     SizeClassInfo(160, 1, 32, 721),
     SizeClassInfo(176, 1, 32, 378),
     SizeClassInfo(192, 1, 32, 491),
     SizeClassInfo(208, 1, 32, 326),
     SizeClassInfo(224, 1, 32, 284),
     SizeClassInfo(240, 1, 32, 266),
     SizeClassInfo(256, 1, 32, 613),
     SizeClassInfo(264, 1, 32, 155),
     SizeClassInfo(280, 1, 32, 292),
     SizeClassInfo(312, 1, 32, 347),
     SizeClassInfo(336, 1, 32, 360),
     SizeClassInfo(352, 1, 32, 188),
     SizeClassInfo(384, 1, 32, 244),
     SizeClassInfo(408, 1, 32, 213),
     SizeClassInfo(424, 1, 32, 162),
     SizeClassInfo(448, 1, 32, 232),
     SizeClassInfo(480, 1, 32, 194),
     SizeClassInfo(512, 1, 32, 409),
     SizeClassInfo(576, 1, 32, 252),
     SizeClassInfo(640, 1, 32, 214),
     SizeClassInfo(704, 1, 32, 188),
     SizeClassInfo(768, 1, 32, 185),
     SizeClassInfo(896, 1, 32, 203),
     SizeClassInfo(1024, 1, 32, 377),
     SizeClassInfo(1152, 2, 32, 192),
     SizeClassInfo(1280, 2, 32, 170),
     SizeClassInfo(1408, 2, 32, 160),
     SizeClassInfo(1536, 2, 32, 166),
     SizeClassInfo(1792, 2, 32, 163),
     SizeClassInfo(2048, 2, 32, 202),
     SizeClassInfo(2304, 2, 28, 158),
     SizeClassInfo(2688, 2, 24, 149),
     SizeClassInfo(2816, 3, 23, 134),
     SizeClassInfo(3200, 2, 20, 141),
     SizeClassInfo(3456, 3, 18, 133),
     SizeClassInfo(3584, 4, 18, 131),
     SizeClassInfo(4096, 1, 16, 350),
     SizeClassInfo(4736, 3, 13, 140),
     SizeClassInfo(5376, 2, 12, 132),
     SizeClassInfo(6144, 3, 10, 140),
     SizeClassInfo(7168, 7, 9, 134),
     SizeClassInfo(8192, 1, 8, 207),
     SizeClassInfo(9472, 5, 6, 134),
     SizeClassInfo(10240, 4, 6, 129),
     SizeClassInfo(12288, 3, 5, 134),
     SizeClassInfo(13568, 5, 4, 129),
     SizeClassInfo(14336, 7, 4, 128),
     SizeClassInfo(16384, 2, 4, 141),
     SizeClassInfo(20480, 5, 3, 132),
     SizeClassInfo(24576, 3, 2, 131),
     SizeClassInfo(28672, 7, 2, 130),
     SizeClassInfo(32768, 4, 2, 143),
     SizeClassInfo(40960, 5, 2, 130),
     SizeClassInfo(49152, 6, 2, 128),
     SizeClassInfo(57344, 7, 2, 128),
     SizeClassInfo(65536, 8, 2, 133),
     SizeClassInfo(73728, 9, 2, 129),
     SizeClassInfo(81920, 10, 2, 128),
     SizeClassInfo(98304, 12, 2, 128),
     SizeClassInfo(114688, 14, 2, 128),
     SizeClassInfo(131072, 16, 2, 128),
     SizeClassInfo(139264, 17, 2, 128),
     SizeClassInfo(155648, 19, 2, 127),
     SizeClassInfo(172032, 21, 2, 127),
     SizeClassInfo(204800, 25, 2, 127),
     SizeClassInfo(229376, 28, 2, 127),
     SizeClassInfo(262144, 32, 2, 128) >>

\* default new alignment <= 8, TCMALLOC_PAGE_SHIFT == 15: the initializer list of kSizeClassesList
\* (source lines 144-217), one SizeClassInfo per row, in source order.
kSizeClassesList_le8_15 ==
  << SizeClassInfo(0, 0, 0, 0),
     SizeClassInfo(8, 1, 32, 1824),
     SizeClassInfo(16, 1, 32, 1824),
     SizeClassInfo(32, 1, 32, 1824),
     SizeClassInfo(64, 1, 32, 1824),
     SizeClassInfo(72, 1, 32, 1241),
     SizeClassInfo(80, 1, 32, 1824),
     SizeClassInfo(88, 1, 32, 1267),
     SizeClassInfo(96, 1, 32, 1590),
     SizeClassInfo(104, 1, 32, 718),
     SizeClassInfo(112, 1, 32, 844),
     SizeClassInfo(120, 1, 32, 678),
     SizeClassInfo(128, 1, 32, 1447),
     SizeClassInfo(136, 1, 32, 428),
     SizeClassInfo(144, 1, 32, 599),
     SizeClassInfo(160, 1, 32, 744),
     SizeClassInfo(176, 1, 32, 461),
     SizeClassInfo(192, 1, 32, 603),
     SizeClassInfo(208, 1, 32, 297),
     SizeClassInfo(240, 1, 32, 686),
     SizeClassInfo(256, 1, 32, 811),
     SizeClassInfo(280, 1, 32, 385),
     SizeClassInfo(304, 1, 32, 289),
     SizeClassInfo(320, 1, 32, 203),
     SizeClassInfo(352, 1, 32, 398),
     SizeClassInfo(400, 1, 32, 298),
     SizeClassInfo(448, 1, 32, 255),
     SizeClassInfo(512, 1, 32, 480),
     SizeClassInfo(576, 1, 32, 238),
     SizeClassInfo(640, 1, 32, 284),
     SizeClassInfo(704, 1, 32, 223),
     SizeClassInfo(768, 1, 32, 198),
     SizeClassInfo(896, 1, 32, 257),
     SizeClassInfo(1024, 1, 32, 364),
     SizeClassInfo(1152, 1, 32, 197),
     SizeClassInfo(1280, 1, 32, 175),
     SizeClassInfo(1408, 1, 32, 175),
     SizeClassInfo(1536, 1, 32, 163),
     SizeClassInfo(1792, 1, 32, 158),
     SizeClassInfo(1920, 1, 32, 126),
     SizeClassInfo(2048, 1, 32, 170),
     SizeClassInfo(2176, 1, 30, 162),
     SizeClassInfo(2304, 1, 28, 130),
     SizeClassInfo(2688, 1, 24, 153),
     SizeClassInfo(3200, 1, 20, 142),
     SizeClassInfo(3584, 1, 18, 127),
     SizeClassInfo(4096, 1, 16, 321),
     SizeClassInfo(4608, 1, 14, 135),
     SizeClassInfo(5376, 1, 12, 128),
     SizeClassInfo(6528, 1, 10, 143),
     SizeClassInfo(8192, 1, 8, 165),
     SizeClassInfo(9344, 2, 7, 127),
     SizeClassInfo(10880, 1, 6, 120),
     SizeClassInfo(13056, 2, 5, 122),
     SizeClassInfo(13952, 3, 4, 116),
     SizeClassInfo(16384, 1, 4, 146),
     SizeClassInfo(19072, 3, 3, 125),
     SizeClassInfo(21760, 2, 3, 117),
     SizeClassInfo(24576, 3, 2, 117),
     SizeClassInfo(28672, 7, 2, 121),
     SizeClassInfo(32768, 1, 2, 135),
     SizeClassInfo(38144, 5, 2, 117),
     SizeClassInfo(40960, 4, 2, 114),
     SizeClassInfo(49152, 3, 2, 115),
     SizeClassInfo(57344, 7, 2, 117),
     SizeClassInfo(65536, 2, 2, 123),
     SizeClassInfo(81920, 5, 2, 118),
     SizeClassInfo(98304, 3, 2, 115),
     SizeClassInfo(114688, 7, 2, 115),
     SizeClassInfo(131072, 4, 2, 142),
     SizeClassInfo(163840, 5, 2, 115),
     SizeClassInfo(196608, 6, 2, 115),
     SizeClassInfo(229376, 7, 2, 113),
     SizeClassInfo(262144, 8, 2, 117) >>

\* default new alignment <= 8, TCMALLOC_PAGE_SHIFT == 18: the initializer list of kSizeClassesList
\* (source lines 226-310), one SizeClassInfo per row, in source order.
kSizeClassesList_le8_18 ==
  << SizeClassInfo(0, 0, 0, 0),
     SizeClassInfo(8, 1, 32, 1912),
     SizeClassInfo(16, 1, 32, 1912),
     SizeClassInfo(32, 1, 32, 1912),
     SizeClassInfo(64, 1, 32, 1918),
     SizeClassInfo(72, 1, 32, 1912),
     SizeClassInfo(80, 1, 32, 1691),
     SizeClassInfo(88, 1, 32, 632),
     SizeClassInfo(96, 1, 32, 898),
     SizeClassInfo(104, 1, 32, 510),
     SizeClassInfo(112, 1, 32, 758),
     SizeClassInfo(128, 1, 32, 1197),
     SizeClassInfo(144, 1, 32, 992),
     SizeClassInfo(160, 1, 32, 841),
     SizeClassInfo(176, 1, 32, 348),
     SizeClassInfo(192, 1, 32, 415),
     SizeClassInfo(208, 1, 32, 299),
     SizeClassInfo(232, 1, 32, 623),
     SizeClassInfo(256, 1, 32, 737),
     SizeClassInfo(280, 1, 32, 365),
     SizeClassInfo(312, 1, 32, 538),
     SizeClassInfo(336, 1, 32, 448),
     SizeClassInfo(376, 1, 32, 220),
     SizeClassInfo(416, 1, 32, 295),
     SizeClassInfo(472, 1, 32, 275),
     SizeClassInfo(512, 1, 32, 339),
     SizeClassInfo(576, 1, 32, 266),
     SizeClassInfo(704, 1, 32, 320),
     SizeClassInfo(768, 1, 32, 181),
     SizeClassInfo(896, 1, 32, 212),
     SizeClassInfo(1024, 1, 32, 340),
     SizeClassInfo(1152, 1, 32, 194),
     SizeClassInfo(1280, 1, 32, 170),
     SizeClassInfo(1408, 1, 32, 148),
     SizeClassInfo(1664, 1, 32, 258),
     SizeClassInfo(1920, 1, 32, 212),
     SizeClassInfo(2048, 1, 32, 183),
     SizeClassInfo(2176, 1, 30, 312),
     SizeClassInfo(2304, 1, 28, 153),
     SizeClassInfo(2560, 1, 25, 146),
     SizeClassInfo(2816, 1, 23, 129),
     SizeClassInfo(3072, 1, 21, 130),
     SizeClassInfo(3328, 1, 19, 147),
     SizeClassInfo(3584, 1, 18, 126),
     SizeClassInfo(3840, 1, 17, 126),
     SizeClassInfo(4096, 1, 16, 273),
     SizeClassInfo(4224, 1, 15, 132),
     SizeClassInfo(4736, 1, 13, 136),
     SizeClassInfo(5248, 1, 12, 147),
     SizeClassInfo(5760, 1, 11, 127),
     SizeClassInfo(6528, 1, 10, 134),
     SizeClassInfo(7168, 1, 9, 123),
     SizeClassInfo(8192, 1, 8, 167),
     SizeClassInfo(9344, 1, 7, 130),
     SizeClassInfo(10880, 1, 6, 126),
     SizeClassInfo(11904, 1, 5, 129),
     SizeClassInfo(13056, 1, 5, 126),
     SizeClassInfo(13696, 1, 4, 120),
     SizeClassInfo(14464, 1, 4, 121),
     SizeClassInfo(15360, 1, 4, 121),
     SizeClassInfo(16384, 1, 4, 139),
     SizeClassInfo(17408, 1, 3, 123),
     SizeClassInfo(18688, 1, 3, 125),
     SizeClassInfo(20096, 1, 3, 120),
     SizeClassInfo(21760, 1, 3, 121),
     SizeClassInfo(23808, 1, 2, 125),
     SizeClassInfo(26112, 1, 2, 122),
     SizeClassInfo(29056, 1, 2, 120),
     SizeClassInfo(32768, 1, 2, 170),
     SizeClassInfo(37376, 1, 2, 122),
     SizeClassInfo(43648, 1, 2, 120),
     SizeClassInfo(45568, 2, 2, 119),
     SizeClassInfo(52352, 1, 2, 120),
     SizeClassInfo(56064, 2, 2, 119),
     SizeClassInfo(65536, 1, 2, 122),
     SizeClassInfo(74880, 2, 2, 120),
     SizeClassInfo(87296, 1, 2, 120),
     SizeClassInfo(104832, 2, 2, 120),
     SizeClassInfo(112256, 3, 2, 119),
     SizeClassInfo(131072, 1, 2, 120),
     SizeClassInfo(149760, 3, 2, 119),
     SizeClassInfo(174720, 2, 2, 119),
     SizeClassInfo(196608, 3, 2, 119),
     SizeClassInfo(209664, 4, 2, 119),
     SizeClassInfo(262144, 1, 2, 122) >>

\* default new alignment <= 8, TCMALLOC_PAGE_SHIFT == 12: the initializer list of kSizeClassesList
\* (source lines 319-360), one SizeClassInfo per row, in source order.
kSizeClassesList_le8_12 ==
  << SizeClassInfo(0, 0, 0, 0),
     SizeClassInfo(8, 1, 32, 2622),
     SizeClassInfo(16, 1, 32, 2622),
     SizeClassInfo(32, 1, 32, 2622),
     SizeClassInfo(64, 1, 32, 2622),
     SizeClassInfo(72, 1, 32, 927),
     SizeClassInfo(80, 1, 32, 2622),
     SizeClassInfo(96, 1, 32, 2160),
     SizeClassInfo(104, 1, 32, 670),
     SizeClassInfo(112, 1, 32, 1197),
     SizeClassInfo(128, 1, 32, 1607),
     SizeClassInfo(144, 1, 32, 1292),
     SizeClassInfo(160, 1, 32, 1167),
     SizeClassInfo(176, 1, 32, 563),
     SizeClassInfo(192, 1, 32, 610),
     SizeClassInfo(208, 1, 32, 394),
     SizeClassInfo(224, 1, 32, 551),
     SizeClassInfo(240, 1, 32, 319),
     SizeClassInfo(256, 1, 32, 598),
     SizeClassInfo(272, 1, 32, 260),
     SizeClassInfo(288, 1, 32, 301),
     SizeClassInfo(336, 1, 32, 579),
     SizeClassInfo(408, 1, 32, 250),
     SizeClassInfo(448, 1, 32, 225),
     SizeClassInfo(512, 1, 32, 739),
     SizeClassInfo(576, 2, 32, 338),
     SizeClassInfo(640, 2, 32, 188),
     SizeClassInfo(768, 2, 32, 334),
     SizeClassInfo(896, 2, 32, 287),
     SizeClassInfo(1024, 2, 32, 964),
     SizeClassInfo(1152, 3, 32, 210),
     SizeClassInfo(1280, 3, 32, 164),
     SizeClassInfo(1536, 3, 32, 204),
     SizeClassInfo(2048, 4, 32, 530),
     SizeClassInfo(2304, 4, 28, 191),
     SizeClassInfo(2688, 4, 24, 181),
     SizeClassInfo(3200, 4, 20, 166),
     SizeClassInfo(4096, 4, 16, 624),
     SizeClassInfo(4736, 5, 13, 213),
     SizeClassInfo(6144, 3, 10, 168),
     SizeClassInfo(7168, 7, 9, 169),
     SizeClassInfo(8192, 4, 8, 236) >>

\* #else branch (no aligned new, or default new alignment > 8), TCMALLOC_PAGE_SHIFT == 13: the initializer list of kSizeClassesList
\* (source lines 373-457), one SizeClassInfo per row, in source order.
kSizeClassesList_gt8_13 ==
  << SizeClassInfo(0, 0, 0, 0),
     SizeClassInfo(8, 1, 32, 2369),
     SizeClassInfo(16, 1, 32, 2369),
     SizeClassInfo(32, 1, 32, 2369),
     SizeClassInfo(64, 1, 32, 2369),
     SizeClassInfo(80, 1, 32, 2369),
     SizeClassInfo(96, 1, 32, 1596),
     SizeClassInfo(112, 1, 32, 911),
     SizeClassInfo(128, 1, 32, 1035),
     SizeClassInfo(144, 1, 32, 699),
     SizeClassInfo(160, 1, 32, 586),
     SizeClassInfo(176, 1, 32, 333),
     SizeClassInfo(192, 1, 32, 418),
     SizeClassInfo(208, 1, 32, 296),
     SizeClassInfo(224, 1, 32, 264),
     SizeClassInfo(240, 1, 32, 251),
     SizeClassInfo(256, 1, 32, 507),
     SizeClassInfo(272, 1, 32, 231),
     SizeClassInfo(288, 1, 32, 264),
     SizeClassInfo(304, 1, 32, 205),
     SizeClassInfo(320, 1, 32, 250),
     SizeClassInfo(336, 1, 32, 269),
     SizeClassInfo(352, 1, 32, 193),
     SizeClassInfo(368, 1, 32, 173),
     SizeClassInfo(384, 1, 32, 209),
     SizeClassInfo(400, 1, 32, 190),
     SizeClassInfo(416, 1, 32, 187),
     SizeClassInfo(448, 1, 32, 236),
     SizeClassInfo(480, 1, 32, 198),
     SizeClassInfo(512, 1, 32, 356),
     SizeClassInfo(576, 1, 32, 241),
     SizeClassInfo(640, 1, 32, 213),
     SizeClassInfo(704, 1, 32, 193),
     SizeClassInfo(768, 1, 32, 191),
     SizeClassInfo(896, 1, 32, 205),
     SizeClassInfo(1024, 1, 32, 332),
     SizeClassInfo(1152, 2, 32, 197),
     SizeClassInfo(1280, 2, 32, 180),
     SizeClassInfo(1408, 2, 32, 172),
     SizeClassInfo(1536, 2, 32, 178),
     SizeClassInfo(1792, 2, 32, 175),
     SizeClassInfo(2048, 2, 32, 204),
     SizeClassInfo(2304, 2, 28, 171),
     SizeClassInfo(2688, 2, 24, 165),
     SizeClassInfo(2816, 3, 23, 154),
     SizeClassInfo(3200, 2, 20, 160),
     SizeClassInfo(3456, 3, 18, 153),
     SizeClassInfo(3584, 4, 18, 152),
     SizeClassInfo(4096, 1, 16, 312),
     SizeClassInfo(4736, 3, 13, 158),
     SizeClassInfo(5376, 2, 12, 153),
     SizeClassInfo(6144, 3, 10, 158),
     SizeClassInfo(6528, 4, 10, 150),
     SizeClassInfo(7168, 7, 9, 152),
     SizeClassInfo(8192, 1, 8, 207),
     SizeClassInfo(9472, 5, 6, 154),
     SizeClassInfo(10240, 4, 6, 150),
     SizeClassInfo(12288, 3, 5, 154),
     SizeClassInfo(13568, 5, 4, 150),
     SizeClassInfo(14336, 7, 4, 149),
     SizeClassInfo(16384, 2, 4, 160),
     SizeClassInfo(20480, 5, 3, 153),
     SizeClassInfo(24576, 3, 2, 152),
     SizeClassInfo(28672, 7, 2, 152),
     SizeClassInfo(32768, 4, 2, 161),
     SizeClassInfo(40960, 5, 2, 150),
     SizeClassInfo(49152, 6, 2, 149),
     SizeClassInfo(57344, 7, 2, 149),
     SizeClassInfo(65536, 8, 2, 153),
     SizeClassInfo(73728, 9, 2, 150),
     SizeClassInfo(81920, 10, 2, 149),
     SizeClassInfo(90112, 11, 2, 148),
     SizeClassInfo(98304, 12, 2, 149),
     SizeClassInfo(106496, 13, 2, 148),
     SizeClassInfo(114688, 14, 2, 148),
     SizeClassInfo(131072, 16, 2, 149),
     SizeClassInfo(139264, 17, 2, 149),
     SizeClassInfo(147456, 18, 2, 148),
     SizeClassInfo(155648, 19, 2, 148),
     SizeClassInfo(172032, 21, 2, 148),
     SizeClassInfo(188416, 23, 2, 148),
     SizeClassInfo(204800, 25, 2, 148),
     SizeClassInfo(221184, 27, 2, 148),
     SizeClassInfo(237568, 29, 2, 146),
     SizeClassInfo(262144, 32, 2, 148) >>

\* #else branch (no aligned new, or default new alignment > 8), TCMALLOC_PAGE_SHIFT == 15: the initializer list of kSizeClassesList
\* (source lines 466-542), one SizeClassInfo per row, in source order.
kSizeClassesList_gt8_15 ==
  << SizeClassInfo(0, 0, 0, 0),
     SizeClassInfo(8, 1, 32, 2249),
     SizeClassInfo(16, 1, 32, 2249),
     SizeClassInfo(32, 1, 32, 2249),
     SizeClassInfo(64, 1, 32, 2249),
     SizeClassInfo(80, 1, 32, 2249),
     SizeClassInfo(96, 1, 32, 2100),
     SizeClassInfo(112, 1, 32, 1138),
     SizeClassInfo(128, 1, 32, 1563),
     SizeClassInfo(144, 1, 32, 739),
     SizeClassInfo(160, 1, 32, 615),
     SizeClassInfo(176, 1, 32, 402),
     SizeClassInfo(192, 1, 32, 509),
     SizeClassInfo(208, 1, 32, 279),
     SizeClassInfo(224, 1, 32, 359),
     SizeClassInfo(240, 1, 32, 355),
     SizeClassInfo(256, 1, 32, 666),
     SizeClassInfo(288, 1, 32, 382),
     SizeClassInfo(304, 1, 32, 234),
     SizeClassInfo(320, 1, 32, 208),
     SizeClassInfo(352, 1, 32, 355),
     SizeClassInfo(384, 1, 32, 244),
     SizeClassInfo(400, 1, 32, 176),
     SizeClassInfo(448, 1, 32, 246),
     SizeClassInfo(480, 1, 32, 254),
     SizeClassInfo(512, 1, 32, 304),
     SizeClassInfo(576, 1, 32, 234),
     SizeClassInfo(640, 1, 32, 269),
     SizeClassInfo(704, 1, 32, 222),
     SizeClassInfo(768, 1, 32, 204),
     SizeClassInfo(832, 1, 32, 208),
     SizeClassInfo(896, 1, 32, 182),
     SizeClassInfo(1024, 1, 32, 328),
     SizeClassInfo(1152, 1, 32, 203),
     SizeClassInfo(1280, 1, 32, 186),
     SizeClassInfo(1408, 1, 32, 186),
     SizeClassInfo(1536, 1, 32, 178),
     SizeClassInfo(1792, 1, 32, 174),
     SizeClassInfo(1920, 1, 32, 149),
     SizeClassInfo(2048, 1, 32, 183),
     SizeClassInfo(2176, 1, 30, 177),
     SizeClassInfo(2304, 1, 28, 153),
     SizeClassInfo(2432, 1, 26, 150),
     SizeClassInfo(2688, 1, 24, 160),
     SizeClassInfo(2944, 1, 22, 149),
     SizeClassInfo(3200, 1, 20, 153),
     SizeClassInfo(3584, 1, 18, 150),
     SizeClassInfo(4096, 1, 16, 297),
     SizeClassInfo(4608, 1, 14, 157),
     SizeClassInfo(5376, 1, 12, 152),
     SizeClassInfo(6528, 1, 10, 163),
     SizeClassInfo(7168, 2, 9, 143),
     SizeClassInfo(8192, 1, 8, 177),
     SizeClassInfo(9344, 2, 7, 150),
     SizeClassInfo(10880, 1, 6, 145),
     SizeClassInfo(13056, 2, 5, 146),
     SizeClassInfo(13952, 3, 4, 142),
     SizeClassInfo(16384, 1, 4, 165),
     SizeClassInfo(19072, 3, 3, 148),
     SizeClassInfo(21760, 2, 3, 143),
     SizeClassInfo(24576, 3, 2, 143),
     SizeClassInfo(26112, 4, 2, 142),
     SizeClassInfo(28672, 7, 2, 145),
     SizeClassInfo(32768, 1, 2, 157),
     SizeClassInfo(38144, 5, 2, 143),
     SizeClassInfo(40960, 4, 2, 141),
     SizeClassInfo(49152, 3, 2, 142),
     SizeClassInfo(57344, 7, 2, 143),
     SizeClassInfo(65536, 2, 2, 147),
     SizeClassInfo(81920, 5, 2, 144),
     SizeClassInfo(98304, 3, 2, 142),
     SizeClassInfo(114688, 7, 2, 141),
     SizeClassInfo(131072, 4, 2, 161),
     SizeClassInfo(163840, 5, 2, 141),
     SizeClassInfo(196608, 6, 2, 142),
     SizeClassInfo(229376, 7, 2, 136),
     SizeClassInfo(262144, 8, 2, 143) >>

\* #else branch (no aligned new, or default new alignment > 8), TCMALLOC_PAGE_SHIFT == 18: the initializer list of kSizeClassesList
\* (source lines 551-638), one SizeClassInfo per row, in source order.
kSizeClassesList_gt8_18 ==
  << SizeClassInfo(0, 0, 0, 0),
     SizeClassInfo(8, 1, 32, 2368),
     SizeClassInfo(16, 1, 32, 2368),
     SizeClassInfo(32, 1, 32, 2368),
     SizeClassInfo(64, 1, 32, 2371),
     SizeClassInfo(80, 1, 32, 2368),
     SizeClassInfo(96, 1, 32, 1006),
     SizeClassInfo(112, 1, 32, 834),
     SizeClassInfo(128, 1, 32, 871),
     SizeClassInfo(144, 1, 32, 733),
     SizeClassInfo(160, 1, 32, 633),
     SizeClassInfo(176, 1, 32, 302),
     SizeClassInfo(192, 1, 32, 347),
     SizeClassInfo(208, 1, 32, 268),
     SizeClassInfo(224, 1, 32, 466),
     SizeClassInfo(256, 1, 32, 584),
     SizeClassInfo(288, 1, 32, 446),
     SizeClassInfo(320, 1, 32, 342),
     SizeClassInfo(336, 1, 32, 321),
     SizeClassInfo(368, 1, 32, 199),
     SizeClassInfo(400, 1, 32, 257),
     SizeClassInfo(448, 1, 32, 259),
     SizeClassInfo(480, 1, 32, 188),
     SizeClassInfo(512, 1, 32, 275),
     SizeClassInfo(576, 1, 32, 246),
     SizeClassInfo(640, 1, 32, 235),
     SizeClassInfo(704, 1, 32, 197),
     SizeClassInfo(768, 1, 32, 190),
     SizeClassInfo(896, 1, 32, 210),
     SizeClassInfo(1024, 1, 32, 296),
     SizeClassInfo(1152, 1, 32, 198),
     SizeClassInfo(1280, 1, 32, 182),
     SizeClassInfo(1408, 1, 32, 168),
     SizeClassInfo(1536, 1, 32, 168),
     SizeClassInfo(1664, 1, 32, 221),
     SizeClassInfo(1920, 1, 32, 209),
     SizeClassInfo(2048, 1, 32, 191),
     SizeClassInfo(2176, 1, 30, 278),
     SizeClassInfo(2304, 1, 28, 171),
     SizeClassInfo(2560, 1, 25, 165),
     SizeClassInfo(2816, 1, 23, 155),
     SizeClassInfo(3072, 1, 21, 155),
     SizeClassInfo(3328, 1, 19, 167),
     SizeClassInfo(3584, 1, 18, 153),
     SizeClassInfo(3840, 1, 17, 153),
     SizeClassInfo(4096, 1, 16, 251),
     SizeClassInfo(4224, 1, 15, 156),
     SizeClassInfo(4736, 1, 13, 160),
     SizeClassInfo(5120, 1, 12, 158),
     SizeClassInfo(5632, 1, 11, 160),
     SizeClassInfo(6144, 1, 10, 153),
     SizeClassInfo(6528, 1, 10, 154),
     SizeClassInfo(7168, 1, 9, 150),
     SizeClassInfo(8192, 1, 8, 180),
     SizeClassInfo(8704, 1, 7, 150),
     SizeClassInfo(9344, 1, 7, 153),
     SizeClassInfo(10368, 1, 6, 151),
     SizeClassInfo(11392, 1, 5, 154),
     SizeClassInfo(12416, 1, 5, 153),
     SizeClassInfo(13056, 1, 5, 150),
     SizeClassInfo(13696, 1, 4, 149),
     SizeClassInfo(14464, 1, 4, 149),
     SizeClassInfo(15360, 1, 4, 149),
     SizeClassInfo(16384, 1, 4, 161),
     SizeClassInfo(17408, 1, 3, 150),
     SizeClassInfo(18688, 1, 3, 151),
     SizeClassInfo(20096, 1, 3, 149),
     SizeClassInfo(21760, 1, 3, 149),
     SizeClassInfo(23808, 1, 2, 151),
     SizeClassInfo(26112, 1, 2, 150),
     SizeClassInfo(29056, 1, 2, 149),
     SizeClassInfo(32768, 1, 2, 182),
     SizeClassInfo(37376, 1, 2, 150),
     SizeClassInfo(43648, 1, 2, 149),
     SizeClassInfo(45568, 2, 2, 148),
     SizeClassInfo(52352, 1, 2, 149),
     SizeClassInfo(56064, 2, 2, 148),
     SizeClassInfo(65536, 1, 2, 150),
     SizeClassInfo(74880, 2, 2, 148),
     SizeClassInfo(87296, 1, 2, 148),
     SizeClassInfo(104832, 2, 2, 148),
     SizeClassInfo(112256, 3, 2, 148),
     SizeClassInfo(131072, 1, 2, 148),
     SizeClassInfo(149760, 3, 2, 148),
     SizeClassInfo(174720, 2, 2, 148),
     SizeClassInfo(196608, 3, 2, 148),
     SizeClassInfo(209664, 4, 2, 148),
     SizeClassInfo(262144, 1, 2, 150) >>

\* #else branch (no aligned new, or default new alignment > 8), TCMALLOC_PAGE_SHIFT == 12: the initializer list of kSizeClassesList
\* (source lines 647-691), one SizeClassInfo per row, in source order.
kSizeClassesList_gt8_12 ==
  << SizeClassInfo(0, 0, 0, 0),
     SizeClassInfo(8, 1, 32, 2906),
     SizeClassInfo(16, 1, 32, 2906),
     SizeClassInfo(32, 1, 32, 2910),
     SizeClassInfo(64, 1, 32, 2906),
     SizeClassInfo(80, 1, 32, 2906),
     SizeClassInfo(96, 1, 32, 1880),
     SizeClassInfo(112, 1, 32, 1490),
     SizeClassInfo(128, 1, 32, 1411),
     SizeClassInfo(144, 1, 32, 1144),
     SizeClassInfo(160, 1, 32, 1037),
     SizeClassInfo(176, 1, 32, 525),
     SizeClassInfo(192, 1, 32, 563),
     SizeClassInfo(208, 1, 32, 380),
     SizeClassInfo(224, 1, 32, 512),
     SizeClassInfo(240, 1, 32, 316),
     SizeClassInfo(256, 1, 32, 553),
     SizeClassInfo(272, 1, 32, 267),
     SizeClassInfo(288, 1, 32, 301),
     SizeClassInfo(304, 1, 32, 261),
     SizeClassInfo(336, 1, 32, 457),
     SizeClassInfo(368, 1, 32, 226),
     SizeClassInfo(400, 1, 32, 207),
     SizeClassInfo(448, 1, 32, 241),
     SizeClassInfo(512, 1, 32, 673),
     SizeClassInfo(576, 2, 32, 333),
     SizeClassInfo(640, 2, 32, 206),
     SizeClassInfo(768, 2, 32, 329),
     SizeClassInfo(896, 2, 32, 290),
     SizeClassInfo(1024, 2, 32, 864),
     SizeClassInfo(1152, 3, 32, 224),
     SizeClassInfo(1280, 3, 32, 184),
     SizeClassInfo(1536, 3, 32, 219),
     SizeClassInfo(1792, 4, 32, 193),
     SizeClassInfo(2048, 4, 32, 483),
     SizeClassInfo(2304, 4, 28, 207),
     SizeClassInfo(2688, 4, 24, 199),
     SizeClassInfo(3200, 4, 20, 187),
     SizeClassInfo(3584, 7, 18, 184),
     SizeClassInfo(4096, 4, 16, 570),
     SizeClassInfo(4736, 5, 13, 226),
     SizeClassInfo(5376, 4, 12, 182),
     SizeClassInfo(6144, 3, 10, 186),
     SizeClassInfo(7168, 7, 9, 190),
     SizeClassInfo(8192, 4, 8, 246) >>
\* #if defined(__cpp_aligned_new) && __STDCPP_DEFAULT_NEW_ALIGNMENT__ <= 8
AlignedNewLe8(an, al) == an /\ al <= 8

\* The page-shift 15 and 18 branches of the first half carry each other's table.
Initializer_SwappedBranches(an, al, s) ==
  IF AlignedNewLe8(an, al)
  THEN CASE s = 13 -> kSizeClassesList_le8_13
         [] s = 15 -> kSizeClassesList_le8_18
         [] s = 18 -> kSizeClassesList_le8_15
         [] s = 12 -> kSizeClassesList_le8_12
  ELSE CASE s = 13 -> kSizeClassesList_gt8_13
         [] s = 15 -> kSizeClassesList_gt8_15
         [] s = 18 -> kSizeClassesList_gt8_18
         [] s = 12 -> kSizeClassesList_gt8_12

\* The initializer list the preprocessor chain leaves in the translation unit.
Initializer(an, al, s) ==
  IF AlignedNewLe8(an, al)
  THEN CASE s = 13 -> kSizeClassesList_le8_13
         [] s = 15 -> kSizeClassesList_le8_15
         [] s = 18 -> kSizeClassesList_le8_18
         [] s = 12 -> kSizeClassesList_le8_12
  ELSE CASE s = 13 -> kSizeClassesList_gt8_13
         [] s = 15 -> kSizeClassesList_gt8_15
         [] s = 18 -> kSizeClassesList_gt8_18
         [] s = 12 -> kSizeClassesList_gt8_12

\* kCount declared one larger than the number of rows written below it.
kCount_PlusOne(an, al, s) ==
  IF AlignedNewLe8(an, al)
  THEN CASE s = 13 -> 83
         [] s = 15 -> 75
         [] s = 18 -> 86
         [] s = 12 -> 43
  ELSE CASE s = 13 -> 86
         [] s = 15 -> 78
         [] s = 18 -> 89
         [] s = 12 -> 46

\* kCount of the first branch copied from the #else branch for the same page shift.
kCount_FromElseBranch(an, al, s) ==
  CASE s = 13 -> 85
    [] s = 15 -> 77
    [] s = 18 -> 88
    [] s = 12 -> 45

\* static const int kCount of the selected branch.
kCount(an, al, s) ==
  IF AlignedNewLe8(an, al)
  THEN CASE s = 13 -> 82
         [] s = 15 -> 74
         [] s = 18 -> 85
         [] s = 12 -> 42
  ELSE CASE s = 13 -> 85
         [] s = 15 -> 77
         [] s = 18 -> 88
         [] s = 12 -> 45

\* The page-shift 12 branches assert the 262144 of the other branches.
kMaxSize_Copied(s) ==
  CASE s = 13 -> 262144
    [] s = 15 -> 262144
    [] s = 18 -> 262144
    [] s = 12 -> 262144

\* static_assert(kMaxSize == ...) of the selected branch.
kMaxSize(s) ==
  CASE s = 13 -> 262144
    [] s = 15 -> 262144
    [] s = 18 -> 262144
    [] s = 12 -> 8192

\* kPageSize = 1 << TCMALLOC_PAGE_SHIFT
RECURSIVE Pow2(_)
Pow2(n) == IF n = 0 THEN 1 ELSE 2 * Pow2(n - 1)

kPageSize(s) == Pow2(s)

\* SizeClassInfo kSizeClassesList[kCount] = {...}: an array of n elements
\* whose first Len(init) elements come from the initializer list and whose
\* remaining elements are value-initialized, i.e. {0,0,0,0}.
ArrayOf(init, n) ==
  [i \in 1..n |-> IF i <= Len(init) THEN init[i] ELSE SizeClassInfo(0, 0, 0, 0)]

\* A row pasted twice: the seventh row repeats the sixth.
kSizeClassesList_DupRow(an, al, s) ==
  LET A == ArrayOf(Initializer(an, al, s), kCount(an, al, s))
  IN [A EXCEPT ![7] = A[6]]

\* Two adjacent rows written in the wrong order.
kSizeClassesList_SwapRows(an, al, s) ==
  LET A == ArrayOf(Initializer(an, al, s), kCount(an, al, s))
  IN [A EXCEPT ![10] = A[11], ![11] = A[10]]

\* The last row's size mistyped one page short of kMaxSize.
kSizeClassesList_ShortLast(an, al, s) ==
  LET A == ArrayOf(Initializer(an, al, s), kCount(an, al, s))
  IN [A EXCEPT ![Len(A)].bytes = @ - 4096]

\* A batch value mistyped: 64 instead of 32 in the row of class 1.
kSizeClassesList_BatchTypo(an, al, s) ==
  LET A == ArrayOf(Initializer(an, al, s), kCount(an, al, s))
  IN [A EXCEPT ![2].batch = 64]

\* The last row's pages column left at 1.
kSizeClassesList_OnePageLast(an, al, s) ==
  LET A == ArrayOf(Initializer(an, al, s), kCount(an, al, s))
  IN [A EXCEPT ![Len(A)].pages = 1]

\* A size mistyped by 4 bytes in the sixth row.
kSizeClassesList_Misaligned(an, al, s) ==
  LET A == ArrayOf(Initializer(an, al, s), kCount(an, al, s))
  IN [A EXCEPT ![6].bytes = @ + 4]

\* Every 3-page span written as a 2-page span.
kSizeClassesList_PagesOff(an, al, s) ==
  LET A == ArrayOf(Initializer(an, al, s), kCount(an, al, s))
  IN [i \in 1..Len(A) |-> IF A[i].pages = 3 THEN [A[i] EXCEPT !.pages = 2] ELSE A[i]]

\* The row of the 16-byte class left out: the rows after it move up and the
\* array's last element is value-initialized.
kSizeClassesList_RowOmitted(an, al, s) ==
  LET A == ArrayOf(Initializer(an, al, s), kCount(an, al, s))
  IN [i \in 1..Len(A) |-> IF i < 3 THEN A[i]
                           ELSE IF i < Len(A) THEN A[i + 1]
                           ELSE SizeClassInfo(0, 0, 0, 0)]

\* Every 2-page span written as a 3-page span.
kSizeClassesList_PagesInflated(an, al, s) ==
  LET A == ArrayOf(Initializer(an, al, s), kCount(an, al, s))
  IN [i \in 1..Len(A) |-> IF A[i].pages = 2 THEN [A[i] EXCEPT !.pages = 3] ELSE A[i]]

\* The last row's batch mistyped as 3.
kSizeClassesList_BatchStale(an, al, s) ==
  LET A == ArrayOf(Initializer(an, al, s), kCount(an, al, s))
  IN [A EXCEPT ![Len(A)].batch = 3]

\* In the first branch only, every 3-page span written as a 2-page span.
kSizeClassesList_Le8PagesOff(an, al, s) ==
  LET A == ArrayOf(Initializer(an, al, s), kCount(an, al, s))
  IN IF AlignedNewLe8(an, al)
     THEN [i \in 1..Len(A) |-> IF A[i].pages = 3 THEN [A[i] EXCEPT !.pages = 2] ELSE A[i]]
     ELSE A

\* A size mistyped by 8 bytes in the sixth row.
kSizeClassesList_EightStep(an, al, s) ==
  LET A == ArrayOf(Initializer(an, al, s), kCount(an, al, s))
  IN [A EXCEPT ![6].bytes = @ + 8]

\* The 64-byte row written as 48 bytes.
kSizeClassesList_Pow2Typo(an, al, s) ==
  LET A == ArrayOf(Initializer(an, al, s), kCount(an, al, s))
  IN [A EXCEPT ![5].bytes = @ - 16]

\* The last row's cap with its last two digits dropped.
kSizeClassesList_CapTypo(an, al, s) ==
  LET A == ArrayOf(Initializer(an, al, s), kCount(an, al, s))
  IN [A EXCEPT ![Len(A)].cap = @ \div 100]

kSizeClassesList(an, al, s) == ArrayOf(Initializer(an, al, s), kCount(an, al, s))

\* Row of class index c (C++ index, from 0) of the selected span.
Class(c) == kSizeClasses[c + 1]

NumClasses == Len(kSizeClasses)

\* "objs" column: number of objects per span.
objs(row, s) == (row.pages * kPageSize(s)) \div row.bytes

\* Bytes of the span no object occupies (end-of-span fragmentation).
leftover(row, s) == row.pages * kPageSize(s) - objs(row, s) * row.bytes

\* Bytes of one span of the given row.
span_bytes(row, s) == row.pages * kPageSize(s)

\* Fixed component of TCMalloc metadata per span, in bytes.
kSpanMetadata == 48

\* Sizes a request may take: within ReqSlack of some class size, in 1..kMaxSize.
ReqSizes ==
  { b + d : b \in { kSizeClasses[i].bytes : i \in 1..NumClasses }, d \in (0 - ReqSlack)..ReqSlack }
    \cap (1..kMaxSize(page_shift))

\* Classes able to serve a request of r bytes, and the smallest of them.
Serving(r) == { c \in 0..(NumClasses - 1) : Class(c).bytes >= r }

SmallestServing(r) ==
  { c \in Serving(r) : \A d \in Serving(r) : Class(c).bytes <= Class(d).bytes }

\* The configuration set before anything is loaded into it.
Unconfigured ==
  [state |-> "Unconfigured", table |-> << >>, perturbed |-> "none", strict8 |-> FALSE,
   checked |-> FALSE, report |-> {}, observed |-> << >>]

Init ==
  /\ cpp_aligned_new \in BOOLEAN
  /\ default_new_alignment \in NewAlignments
  /\ page_shift \in PageShifts
  /\ max_size \in MaxSizes
  /\ pc = "preprocess"
  /\ kSizeClasses = << >>
  /\ cls = 0
  /\ req = 0
  /\ cfgset = Unconfigured

\* One of the four page-shift branches is taken; its static_assert on kMaxSize
\* holds, the array is built and the span kSizeClasses refers to it. More
\* initializers than kCount is ill-formed.
Compile ==
  /\ pc = "preprocess"
  /\ page_shift \in SupportedShifts
  /\ max_size = kMaxSize(page_shift)
  /\ Len(Initializer(cpp_aligned_new, default_new_alignment, page_shift))
       <= kCount(cpp_aligned_new, default_new_alignment, page_shift)
  /\ kSizeClasses' = kSizeClassesList(cpp_aligned_new, default_new_alignment, page_shift)
  /\ pc' = "compiled"
  /\ UNCHANGED <<cpp_aligned_new, default_new_alignment, page_shift, max_size, cls, req, cfgset>>

\* #else #error "Unsupported TCMALLOC_PAGE_SHIFT value!"
Unsupported ==
  /\ pc = "preprocess"
  /\ page_shift \notin SupportedShifts
  /\ pc' = "error"
  /\ UNCHANGED <<cpp_aligned_new, default_new_alignment, page_shift, max_size, kSizeClasses, cls, req,
                 cfgset>>

\* static_assert(kMaxSize == ..., "kMaxSize mismatch") of the taken branch fails.
AssertFails ==
  /\ pc = "preprocess"
  /\ page_shift \in SupportedShifts
  /\ max_size # kMaxSize(page_shift)
  /\ pc' = "error"
  /\ UNCHANGED <<cpp_aligned_new, default_new_alignment, page_shift, max_size, kSizeClasses, cls, req,
                 cfgset>>

\* The initialization-time walk over the span, one class at a time.
NextClass ==
  /\ pc = "compiled"
  /\ req = 0
  /\ cls < NumClasses - 1
  /\ cls' = cls + 1
  /\ UNCHANGED <<cpp_aligned_new, default_new_alignment, page_shift, max_size, pc, kSizeClasses, req,
                 cfgset>>

\* After the walk, a request of r bytes is presented to the table.
Request ==
  /\ pc = "compiled"
  /\ cls = NumClasses - 1
  /\ \E r \in ReqSizes : req' = r
  /\ UNCHANGED <<cpp_aligned_new, default_new_alignment, page_shift, max_size, pc, kSizeClasses, cls,
                 cfgset>>

Next ==
  \/ Compile
  \/ Unsupported
  \/ AssertFails
  \/ NextClass
  \/ Request

Spec == Init /\ [][Next]_vars

\* ---- The configuration set: load, validate, activate ----

\* Everything but the configuration set.
buildVars == <<cpp_aligned_new, default_new_alignment, page_shift, max_size, pc, kSizeClasses, cls, req>>

\* Ways a hand-edited table may differ from the embedded one in one place:
\* the sizes of two adjacent classes swapped, one pages_per_span increased,
\* one cache_capacity increased.
PerturbKinds == {"swap", "pages", "cap"}

\* The table T perturbed at class c (C++ index, c >= 1).
Perturb(T, kind, c) ==
  CASE kind = "swap"  -> [T EXCEPT ![c + 1].bytes = T[c + 2].bytes, ![c + 2].bytes = T[c + 1].bytes]
    [] kind = "pages" -> [T EXCEPT ![c + 1].pages = @ + 1]
    [] kind = "cap"   -> [T EXCEPT ![c + 1].cap = @ + 1]

\* Classes at which a perturbation of the given kind can be applied.
PerturbClasses(T, kind) ==
  IF kind = "swap" THEN 1..(Len(T) - 2) ELSE 1..(Len(T) - 1)

\* validate(table, page size, max block size, max classes): the numbers of
\* the table invariants 1..8 that the table breaks. Alignment is 8, the waste
\* ceiling 10%, the growth ceiling 100%, the batch ceiling 32. With batchVsObjs
\* invariant 8 also demands transfer_batch <= objects_per_span; without it
\* invariant 8 is the batch ceiling alone.
BrokenInvariants(T, s, maxsz, maxn, batchVsObjs) ==
  LET n == Len(T)
      b1 == T[1] # SizeClassInfo(0, 0, 0, 0)
      b2 == \E i \in 3..n : T[i].bytes <= T[i - 1].bytes
      b3 == T[n].bytes # maxsz
      b4 == \E i \in 2..n : T[i].bytes % 8 # 0
      b5 == \E i \in 2..n :
              \/ T[i].bytes = 0
              \/ T[i].pages = 0
              \/ 100 * (leftover(T[i], s) + kSpanMetadata) >= 10 * span_bytes(T[i], s)
      b6 == \E i \in 3..n : T[i].bytes > 2 * T[i - 1].bytes
      b7 == n > maxn
      b8 == \E i \in 2..n :
              \/ T[i].batch > 32
              \/ batchVsObjs /\ (T[i].bytes = 0 \/ T[i].batch > objs(T[i], s))
  IN { k \in 1..8 : \/ k = 1 /\ b1
                    \/ k = 2 /\ b2
                    \/ k = 3 /\ b3
                    \/ k = 4 /\ b4
                    \/ k = 5 /\ b5
                    \/ k = 6 /\ b6
                    \/ k = 7 /\ b7
                    \/ k = 8 /\ b8 }

\* Unconfigured -> Loading: the embedded literal is loaded as it is. The
\* reading of invariant 8 the validator will use is fixed here.
Load ==
  /\ pc = "compiled"
  /\ cfgset.state = "Unconfigured"
  /\ \E strict \in BOOLEAN :
       cfgset' = [cfgset EXCEPT !.state = "Loading", !.table = kSizeClasses, !.strict8 = strict]
  /\ UNCHANGED buildVars

\* Unconfigured -> Loading: a table edited in one place is supplied instead.
LoadPerturbed ==
  /\ pc = "compiled"
  /\ cfgset.state = "Unconfigured"
  /\ \E strict \in BOOLEAN, kind \in PerturbKinds :
       \E c \in PerturbClasses(kSizeClasses, kind) :
         cfgset' = [cfgset EXCEPT !.state = "Loading",
                                  !.table = Perturb(kSizeClasses, kind, c),
                                  !.perturbed = kind,
                                  !.strict8 = strict]
  /\ UNCHANGED buildVars

\* A build that ended in an error leaves the configuration Rejected.
RejectBuild ==
  /\ pc = "error"
  /\ cfgset.state = "Unconfigured"
  /\ cfgset' = [cfgset EXCEPT !.state = "Rejected"]
  /\ UNCHANGED buildVars

\* The report is recorded but the configuration is marked Validated whatever it says.
Validate_ReportIgnored ==
  /\ cfgset.state = "Loading"
  /\ LET r == BrokenInvariants(cfgset.table, page_shift, max_size,
                               kCount(cpp_aligned_new, default_new_alignment, page_shift),
                               cfgset.strict8)
     IN cfgset' = [cfgset EXCEPT !.state = "Validated",
                                 !.checked = TRUE,
                                 !.report = r]
  /\ UNCHANGED buildVars

\* Loading -> Validated when the validator reports all-pass, else -> Rejected.
Validate ==
  /\ cfgset.state = "Loading"
  /\ LET r == BrokenInvariants(cfgset.table, page_shift, max_size,
                               kCount(cpp_aligned_new, default_new_alignment, page_shift),
                               cfgset.strict8)
     IN cfgset' = [cfgset EXCEPT !.state = IF r = {} THEN "Validated" ELSE "Rejected",
                                 !.checked = TRUE,
                                 !.report = r]
  /\ UNCHANGED buildVars

\* Validated -> Active.
Activate ==
  /\ cfgset.state = "Validated"
  /\ cfgset' = [cfgset EXCEPT !.state = "Active"]
  /\ UNCHANGED buildVars

\* A downstream consumer obtains the table of the active configuration.
Observe ==
  /\ cfgset.state = "Active"
  /\ cfgset.observed = << >>
  /\ cfgset' = [cfgset EXCEPT !.observed = cfgset.table]
  /\ UNCHANGED buildVars

LifecycleNext ==
  \/ Compile
  \/ Unsupported
  \/ AssertFails
  \/ Load
  \/ LoadPerturbed
  \/ RejectBuild
  \/ Validate
  \/ Activate
  \/ Observe

LifecycleSpec == Init /\ [][LifecycleNext]_vars

\* C1: in every table, for every adjacent pair of classes i-1, i with i >= 2,
\* size_bytes[i] > size_bytes[i-1] (sizes strictly increase, none repeats).
C1_StrictlyIncreasing ==
  (pc = "compiled" /\ cls >= 2) => Class(cls).bytes > Class(cls - 1).bytes

C1_Witness ==
  /\ pc = "compiled"
  /\ ~AlignedNewLe8(cpp_aligned_new, default_new_alignment)
  /\ page_shift = 18
  /\ cls = 87
  /\ Class(cls).bytes > Class(cls - 1).bytes

\* C2: for every request r with 1 <= r <= kMaxSize there is exactly one
\* smallest class c with size_bytes[c] >= r; c >= 1, and for c >= 2 the
\* class before it is too small: size_bytes[c-1] < r.
C2_UniqueSmallestClass ==
  (pc = "compiled" /\ req >= 1) =>
    /\ Cardinality(SmallestServing(req)) = 1
    /\ \A c \in SmallestServing(req) :
         /\ c >= 1
         /\ c >= 2 => Class(c - 1).bytes < req

C2_Witness ==
  /\ pc = "compiled"
  /\ AlignedNewLe8(cpp_aligned_new, default_new_alignment)
  /\ page_shift = 13
  /\ req = 65
  /\ SmallestServing(req) = {5}
  /\ Class(5).bytes = 72

\* C3: row 0 is the sentinel {0,0,0,0} and every other row of the array,
\* up to index kCount-1, has all four fields strictly positive (size 0
\* occurs only at index 0; kCount leaves no zero-filled rows at the end).
C3_SentinelOnlyZeroRow ==
  pc = "compiled" =>
    /\ Class(0) = SizeClassInfo(0, 0, 0, 0)
    /\ NumClasses = kCount(cpp_aligned_new, default_new_alignment, page_shift)
    /\ cls >= 1 =>
         /\ Class(cls).bytes > 0
         /\ Class(cls).pages > 0
         /\ Class(cls).batch > 0
         /\ Class(cls).cap > 0

C3_Witness ==
  /\ pc = "compiled"
  /\ AlignedNewLe8(cpp_aligned_new, default_new_alignment)
  /\ page_shift = 12
  /\ cls = kCount(cpp_aligned_new, default_new_alignment, page_shift) - 1
  /\ Class(cls).cap = 236
  /\ Class(0).bytes = 0

\* C4: the last class (index kCount-1) has size_bytes equal to the maximum
\* block size: 262144 for page shifts 13, 15, 18 and 8192 for page shift 12,
\* which is the kMaxSize the branch asserts.
C4_LastClassIsMaxSize ==
  pc = "compiled" =>
    /\ Class(NumClasses - 1).bytes = kMaxSize(page_shift)
    /\ Class(NumClasses - 1).bytes = (IF page_shift = 12 THEN 8192 ELSE 262144)

C4_Witness ==
  /\ pc = "compiled"
  /\ ~AlignedNewLe8(cpp_aligned_new, default_new_alignment)
  /\ page_shift = 12
  /\ cls = NumClasses - 1
  /\ Class(cls).bytes = 8192

\* C5 as stated: for every non-sentinel class, transfer_batch <= objects_per_span.
C5_BatchAtMostObjsPerSpan ==
  (pc = "compiled" /\ cls >= 1) => Class(cls).batch <= objs(Class(cls), page_shift)

\* C5 (amended): for every non-sentinel class transfer_batch <= 32, and
\* transfer_batch <= objects_per_span for every class whose span is at least
\* 65536 bytes and holds at least two objects.
C5_BatchBounded ==
  (pc = "compiled" /\ cls >= 1) =>
    /\ Class(cls).batch <= 32
    /\ (span_bytes(Class(cls), page_shift) >= 65536 /\ objs(Class(cls), page_shift) >= 2)
         => Class(cls).batch <= objs(Class(cls), page_shift)

C5_Witness ==
  /\ pc = "compiled"
  /\ page_shift = 18
  /\ cls >= 1
  /\ Class(cls).bytes = 131072
  /\ span_bytes(Class(cls), page_shift) = 262144
  /\ objs(Class(cls), page_shift) = 2
  /\ Class(cls).batch = 2

\* C6: for every non-sentinel class a span fits at least one object:
\* pages_per_span * page_size >= size_bytes, i.e. objects_per_span >= 1.
C6_SpanFitsOneObject ==
  (pc = "compiled" /\ cls >= 1) =>
    /\ span_bytes(Class(cls), page_shift) >= Class(cls).bytes
    /\ objs(Class(cls), page_shift) >= 1

C6_Witness ==
  /\ pc = "compiled"
  /\ page_shift = 13
  /\ cls >= 1
  /\ Class(cls).bytes = 262144
  /\ span_bytes(Class(cls), page_shift) = Class(cls).bytes
  /\ objs(Class(cls), page_shift) = 1

\* C7: every class's size_bytes is a multiple of the minimum alignment of
\* 8 bytes, which is the size of class 1.
C7_MultipleOfEight ==
  pc = "compiled" =>
    /\ Class(1).bytes = 8
    /\ Class(cls).bytes % 8 = 0

C7_Witness ==
  /\ pc = "compiled"
  /\ page_shift = 15
  /\ Class(cls).bytes = 72
  /\ Class(cls).bytes % 16 = 8

\* C8: for every non-sentinel class the fixed waste - the bytes left unused
\* at the end of the span plus 48 bytes of per-span metadata, relative to the
\* span's bytes - is below 10%: 100 * (leftover + 48) < 10 * span_bytes.
C8_FixedWasteBelowTenPct ==
  (pc = "compiled" /\ cls >= 1) =>
    100 * (leftover(Class(cls), page_shift) + kSpanMetadata)
      < 10 * span_bytes(Class(cls), page_shift)

C8_Witness ==
  /\ pc = "compiled"
  /\ page_shift = 13
  /\ cls >= 1
  /\ Class(cls).bytes = 2816
  /\ leftover(Class(cls), page_shift) = 2048
  /\ 100 * (leftover(Class(cls), page_shift) + kSpanMetadata)
       > 8 * span_bytes(Class(cls), page_shift)

\* C9: for every class i >= 2 the size grows by at most 100% over the
\* preceding class: size_bytes[i] <= 2 * size_bytes[i-1].
C9_GrowthAtMostDouble ==
  (pc = "compiled" /\ cls >= 2) => Class(cls).bytes <= 2 * Class(cls - 1).bytes

C9_Witness ==
  /\ pc = "compiled"
  /\ cls = 2
  /\ Class(cls).bytes = 16
  /\ Class(cls).bytes = 2 * Class(cls - 1).bytes

\* C10: with page shift 13 and default new alignment <= 8, class 1 is
\* {8 bytes, 1 page}, the last class is {262144 bytes, 32 pages}, and the
\* table has exactly 82 classes including the sentinel, which is kCount.
C10_Shift13Le8Scenario ==
  (pc = "compiled" /\ AlignedNewLe8(cpp_aligned_new, default_new_alignment) /\ page_shift = 13) =>
    /\ Class(1).bytes = 8
    /\ Class(1).pages = 1
    /\ Class(NumClasses - 1).bytes = 262144
    /\ Class(NumClasses - 1).pages = 32
    /\ NumClasses = 82
    /\ kCount(cpp_aligned_new, default_new_alignment, page_shift) = 82

C10_Witness ==
  /\ pc = "compiled"
  /\ AlignedNewLe8(cpp_aligned_new, default_new_alignment)
  /\ page_shift = 13
  /\ cls = 81
  /\ Class(cls).pages = 32
  /\ req = 262144

\* The array of the other alignment branch for the same page shift.
OtherBranchList(an, al, s) ==
  IF AlignedNewLe8(an, al) THEN kSizeClassesList(FALSE, 16, s) ELSE kSizeClassesList(TRUE, 8, s)

C12_SelectionClosed ==
  LET le8 == AlignedNewLe8(cpp_aligned_new, default_new_alignment)
      Tables == [k \in {TRUE, FALSE} \X SupportedShifts |->
                   CASE k = <<TRUE, 13>> -> kSizeClassesList_le8_13
                     [] k = <<TRUE, 15>> -> kSizeClassesList_le8_15
                     [] k = <<TRUE, 18>> -> kSizeClassesList_le8_18
                     [] k = <<TRUE, 12>> -> kSizeClassesList_le8_12
                     [] k = <<FALSE, 13>> -> kSizeClassesList_gt8_13
                     [] k = <<FALSE, 15>> -> kSizeClassesList_gt8_15
                     [] k = <<FALSE, 18>> -> kSizeClassesList_gt8_18
                     [] k = <<FALSE, 12>> -> kSizeClassesList_gt8_12]
  IN /\ pc = "compiled" =>
          /\ page_shift \in SupportedShifts
          /\ { k \in DOMAIN Tables : Tables[k] = kSizeClasses } = { <<le8, page_shift>> }
     /\ page_shift \notin SupportedShifts =>
          /\ pc # "compiled"
          /\ kSizeClasses = << >>
          /\ pc # "preprocess" => pc = "error"

C12_Witness ==
  /\ pc = "error"
  /\ page_shift = 14
  /\ AlignedNewLe8(cpp_aligned_new, default_new_alignment)
  /\ kSizeClasses = << >>

\* The row with its pages column replaced by q.
WithPages(row, q) == [row EXCEPT !.pages = q]

\* Fixed waste of the row with q pages is lower than (equal to) its waste with
\* p pages: (leftover_q + 48) / (q * page) against (leftover_p + 48) / (p * page).
WasteLower(row, q, p, s) ==
  (leftover(WithPages(row, q), s) + kSpanMetadata) * p
    < (leftover(WithPages(row, p), s) + kSpanMetadata) * q

WasteEqual(row, q, p, s) ==
  (leftover(WithPages(row, q), s) + kSpanMetadata) * p
    = (leftover(WithPages(row, p), s) + kSpanMetadata) * q

\* Largest pages column of the selected table.
MaxPages == CHOOSE p \in { kSizeClasses[i].pages : i \in 1..NumClasses } :
              \A i \in 1..NumClasses : kSizeClasses[i].pages <= p

\* C15 as stated: each non-sentinel class's pages_per_span minimizes the
\* fixed waste over 1..P (P the largest pages_per_span of the table), ties
\* toward fewer pages: no value in 1..P gives lower waste and no smaller
\* value gives equal waste.
C15_PagesMinimizeWaste ==
  (pc = "compiled" /\ cls >= 1) =>
    \A q \in 1..MaxPages :
      /\ ~WasteLower(Class(cls), q, Class(cls).pages, page_shift)
      /\ q < Class(cls).pages => ~WasteEqual(Class(cls), q, Class(cls).pages, page_shift)

\* C15 (amended): for every non-sentinel class no smaller pages_per_span
\* gives the same fixed waste as the stored one, and in the tables of page
\* shifts 13, 15 and 18 no smaller pages_per_span gives a lower fixed waste
\* either; larger values may give lower waste.
C15_NoSmallerPagesAsGood ==
  (pc = "compiled" /\ cls >= 1) =>
    \A q \in 1..(Class(cls).pages - 1) :
      /\ ~WasteEqual(Class(cls), q, Class(cls).pages, page_shift)
      /\ page_shift # 12 => ~WasteLower(Class(cls), q, Class(cls).pages, page_shift)

C15_Witness ==
  /\ pc = "compiled"
  /\ page_shift = 13
  /\ cls >= 1
  /\ Class(cls).bytes = 2816
  /\ Class(cls).pages = 3
  /\ WasteLower(Class(cls), 3, 2, page_shift)
  /\ WasteLower(Class(cls), 4, 3, page_shift)

\* C16: for every non-sentinel class transfer_batch is
\* max(2, min(32, floor(65536 / size_bytes))); so it is at most 32, at least
\* 2, and never larger than the batch of the class before it.
C16_BatchFromSize ==
  (pc = "compiled" /\ cls >= 1) =>
    LET q == 65536 \div Class(cls).bytes
    IN /\ Class(cls).batch = (IF q > 32 THEN 32 ELSE IF q < 2 THEN 2 ELSE q)
       /\ Class(cls).batch <= 32
       /\ Class(cls).batch >= 2
       /\ cls >= 2 => Class(cls).batch <= Class(cls - 1).batch

C16_Witness ==
  /\ pc = "compiled"
  /\ cls >= 2
  /\ Class(cls).bytes = 2304
  /\ Class(cls).batch = 28
  /\ Class(cls - 1).batch = 32

\* C17: for each page shift, a size_bytes that occurs in the tables of both
\* alignment branches has the same pages_per_span and the same
\* transfer_batch in both.
C17_GeometryIgnoresAlignment ==
  (pc = "compiled" /\ cls >= 1) =>
    LET Other == OtherBranchList(cpp_aligned_new, default_new_alignment, page_shift)
    IN \A j \in 2..Len(Other) :
         Other[j].bytes = Class(cls).bytes =>
           /\ Other[j].pages = Class(cls).pages
           /\ Other[j].batch = Class(cls).batch

C17_Witness ==
  /\ pc = "compiled"
  /\ AlignedNewLe8(cpp_aligned_new, default_new_alignment)
  /\ page_shift = 13
  /\ cls >= 1
  /\ Class(cls).bytes = 3456
  /\ Class(cls).pages = 3
  /\ Class(cls).cap = 133
  /\ \E j \in 2..Len(kSizeClassesList_gt8_13) :
       /\ kSizeClassesList_gt8_13[j].bytes = 3456
       /\ kSizeClassesList_gt8_13[j].pages = 3
       /\ kSizeClassesList_gt8_13[j].cap = 153

\* C18: in the four tables of the #else branch every class of 16 bytes or
\* more has size_bytes divisible by 16, the 8-byte class 1 being the only
\* class that is not; each table of the first branch has a class other than
\* class 1 whose size is a multiple of 8 but not of 16.
C18_ElseBranchSixteenAligned ==
  pc = "compiled" =>
    IF AlignedNewLe8(cpp_aligned_new, default_new_alignment)
    THEN \E c \in 2..(NumClasses - 1) : Class(c).bytes % 16 = 8
    ELSE /\ Class(1).bytes = 8
         /\ cls >= 2 => (Class(cls).bytes >= 16 /\ Class(cls).bytes % 16 = 0)

C18_Witness ==
  /\ pc = "compiled"
  /\ ~AlignedNewLe8(cpp_aligned_new, default_new_alignment)
  /\ page_shift = 18
  /\ cls = 5
  /\ Class(cls).bytes = 80
  /\ Class(cls - 1).bytes = 64

\* C19: every power of two from 8 up to the table's maximum block size is
\* the size_bytes of some class.
C19_PowersOfTwoAreClasses ==
  pc = "compiled" =>
    \A k \in 3..18 :
      Pow2(k) <= kMaxSize(page_shift) =>
        \E c \in 1..(NumClasses - 1) : Class(c).bytes = Pow2(k)

C19_Witness ==
  /\ pc = "compiled"
  /\ AlignedNewLe8(cpp_aligned_new, default_new_alignment)
  /\ page_shift = 12
  /\ req = 4096
  /\ \E c \in SmallestServing(req) : Class(c).bytes = req

\* C20: for every non-sentinel class cache_capacity >= transfer_batch.
C20_CapHoldsOneBatch ==
  (pc = "compiled" /\ cls >= 1) => Class(cls).cap >= Class(cls).batch

C20_Witness ==
  /\ pc = "compiled"
  /\ page_shift = 15
  /\ cls >= 1
  /\ Class(cls).bytes = 1920
  /\ Class(cls).cap = 126
  /\ Class(cls).batch = 32

====
